---- MODULE Spec2Model ----
(***************************************************************************)
(* Block (the "Vertex") of checkov's terraform graph builder, with the     *)
(* "within" attribute solver.                                              *)
(*                                                                         *)
(* Python objects are modelled with reference semantics: every dict and    *)
(* list lives at an address of `heap`, and a container holds cells that    *)
(* are either immutable primitives or references to other addresses.  An   *)
(* in-place assignment changes the object at its address, so every holder  *)
(* of a reference to it sees the change.                                   *)
(*                                                                         *)
(* A dotted attribute key 'a.b.c' is the sequence <<"a","b","c">> of its   *)
(* dot-free components: str.split('.') and '.'.join are the two directions *)
(* of that bijection, f'{k}.{c}' is concatenation.  A dict keeps its       *)
(* insertion order (field ks), as Python's dict does.  An int dict key n   *)
(* is written as the numeric component of the same digits; the source      *)
(* documents of this model hold no numeric string keys.                    *)
(***************************************************************************)
EXTENDS Integers, Sequences, FiniteSets, TLC

VARIABLES
    heap,                \* the Python heap: address -> dict or list object
    crumbs,              \* the breadcrumb lists: address -> sequence of origin ids
    built,               \* built[self]: Block.__init__ has run
    name,                \* self.name
    block_type,          \* self.block_type
    attributes,          \* self.attributes: the address of the attributes dict
    changed_attributes,  \* self.changed_attributes: ordered dict key -> breadcrumb list address
    config,              \* self.config: the deep copy of the declaration, a value
    source,              \* the caller's reference to the attribute tree it supplied
    updates,             \* updates[self]: the update_attribute calls made so far
    failures,            \* failures[self]: those of them that met a resolution failure
    last                 \* the last call made: its arguments, the state before it, its result

vars == <<heap, crumbs, built, name, block_type, attributes, changed_attributes,
          config, source, updates, failures, last>>

-----------------------------------------------------------------------------
(* Values *)

Int_(n) == [k |-> "p", v |-> n]          \* a Python int (0 is falsy)
Str(s) == [k |-> "s", v |-> s]           \* a Python str
NoneV == [k |-> "n", v |-> 0]            \* Python's None
Ref(a) == [k |-> "r", v |-> a]           \* a reference to heap[a]
Name(key) == [k |-> "key", v |-> key]    \* a Python str that is an attribute key

DictObj(ks, f) == [k |-> "d", ks |-> ks, v |-> f]
ListObj(s) == [k |-> "l", ks |-> <<>>, v |-> s]
EmptyDict == DictObj(<<>>, <<>>)

\* type(x) is dict / type(x) is list
IsDict(c, h) == c.k = "r" /\ h[c.v].k = "d"
IsList(c, h) == c.k = "r" /\ h[c.v].k = "l"

\* Python truthiness: 0, '', None, [] and {} are falsy
Truthy(c, h) ==
    CASE c.k = "p" -> c.v # 0
      [] c.k = "s" -> c.v # ""
      [] c.k = "n" -> FALSE
      [] c.k = "r" -> IF h[c.v].k = "l" THEN Len(h[c.v].v) > 0 ELSE Len(h[c.v].ks) > 0
      [] c.k \in {"l", "d"} -> DOMAIN c.v # {}
      [] OTHER -> TRUE

\* str.isnumeric() and int() on one path component; str(i) of a list index
Digits == <<"0", "1", "2", "3">>
isnumeric(c) == \E i \in 1..Len(Digits) : Digits[i] = c
IntOf(c) == (CHOOSE i \in 1..Len(Digits) : Digits[i] = c) - 1
IdxStr(i) == Digits[i + 1]

-----------------------------------------------------------------------------
(* Ordered dicts that are local variables of a function (not shared) *)

ODEmpty == [ks |-> <<>>, v |-> <<>>]
ODHas(d, key) == key \in DOMAIN d.v
ODSet(d, key, c) ==
    IF ODHas(d, key)
    THEN [ks |-> d.ks, v |-> [d.v EXCEPT ![key] = c]]
    ELSE [ks |-> Append(d.ks, key), v |-> (key :> c) @@ d.v]

RECURSIVE ODUpdateFrom(_, _, _)
ODUpdateFrom(d, e, i) ==
    IF i > Len(e.ks) THEN d
    ELSE ODUpdateFrom(ODSet(d, e.ks[i], e.v[e.ks[i]]), e, i + 1)
\* dict.update(e)
ODUpdate(d, e) == ODUpdateFrom(d, e, 1)

ODDel(d, key) ==
    LET keep == {i \in 1..Len(d.ks) : d.ks[i] # key}
        F[i \in 0..Len(d.ks)] ==
            IF i = 0 THEN <<>>
            ELSE IF i \in keep THEN Append(F[i - 1], d.ks[i]) ELSE F[i - 1]
    IN [ks |-> F[Len(d.ks)], v |-> [x \in (DOMAIN d.v) \ {key} |-> d.v[x]]]

-----------------------------------------------------------------------------
(* Heap objects *)

\* d[key] = c on the dict at address a
DictSet(h, a, key, c) ==
    LET d == ODSet([ks |-> h[a].ks, v |-> h[a].v], key, c)
    IN [h EXCEPT ![a] = DictObj(d.ks, d.v)]

\* del d[key]
DictDel(h, a, key) ==
    LET d == ODDel([ks |-> h[a].ks, v |-> h[a].v], key)
    IN [h EXCEPT ![a] = DictObj(d.ks, d.v)]

\* l[i] = c on the list at address a (i counted from 0, in range)
ListSet(h, a, i, c) == [h EXCEPT ![a] = ListObj([h[a].v EXCEPT ![i + 1] = c])]

\* the value a cell denotes, references followed (dict order dropped: Python's ==
\* on dicts ignores it)
RECURSIVE Deref(_, _)
Deref(c, h) ==
    IF c.k # "r" THEN c
    ELSE IF h[c.v].k = "l"
         THEN [k |-> "l", v |-> [i \in 1..Len(h[c.v].v) |-> Deref(h[c.v].v[i], h)]]
         ELSE [k |-> "d", v |-> [key \in DOMAIN h[c.v].v |-> Deref(h[c.v].v[key], h)]]

\* a document literal: L(<<..>>) a list, D(<<<<"key", value>>, ..>>) a dict in
\* that order
L(s) == [k |-> "l", v |-> s]
D(pairs) == [k |-> "d", v |-> pairs]

\* the value of a literal, as Deref gives it
RECURSIVE ValueOf(_)
ValueOf(lit) ==
    CASE lit.k = "l" -> [k |-> "l", v |-> [i \in 1..Len(lit.v) |-> ValueOf(lit.v[i])]]
      [] lit.k = "d" ->
            [k |-> "d",
             v |-> [key \in {<<lit.v[i][1]>> : i \in 1..Len(lit.v)} |->
                      ValueOf(lit.v[CHOOSE i \in 1..Len(lit.v) : <<lit.v[i][1]>> = key][2])]]
      [] OTHER -> lit

\* build a literal on the heap: [h |-> the heap, cell |-> the cell denoting it]
RECURSIVE Alloc(_, _), AllocItems(_, _, _, _)
Alloc(lit, h) ==
    CASE lit.k = "l" ->
            LET r == AllocItems(lit.v, 1, h, <<>>)
            IN [h |-> Append(r.h, ListObj(r.cells)), cell |-> Ref(Len(r.h) + 1)]
      [] lit.k = "d" ->
            LET r == AllocItems([i \in 1..Len(lit.v) |-> lit.v[i][2]], 1, h, <<>>)
                ks == [i \in 1..Len(lit.v) |-> <<lit.v[i][1]>>]
                f == [key \in {ks[i] : i \in 1..Len(ks)} |->
                        r.cells[CHOOSE i \in 1..Len(ks) : ks[i] = key]]
            IN [h |-> Append(r.h, DictObj(ks, f)), cell |-> Ref(Len(r.h) + 1)]
      [] OTHER -> [h |-> h, cell |-> lit]
AllocItems(lits, i, h, cells) ==
    IF i > Len(lits) THEN [h |-> h, cells |-> cells]
    ELSE LET r == Alloc(lits[i], h)
         IN AllocItems(lits, i + 1, r.h, Append(cells, r.cell))

-----------------------------------------------------------------------------
(* get_inner_attributes: the nested -> flat transform *)

\* container[key] = c, where key is one component: a list index or a dict key
SetItem(h, a, key, c) ==
    IF h[a].k = "l" THEN ListSet(h, a, IntOf(key[1]), c) ELSE DictSet(h, a, key, c)

\* container[key]
GetItem(h, a, key) ==
    IF h[a].k = "l" THEN h[a].v[IntOf(key[1]) + 1] ELSE h[a].v[key]

RECURSIVE get_inner_attributes(_, _, _), InnerLoop(_, _, _, _, _)
\* [h |-> the heap with the containers it built, inner |-> inner_attributes]
get_inner_attributes(attribute_key, attribute_value, h) ==
    LET value == IF IsList(attribute_value, h) /\ Len(h[attribute_value.v].v) = 1
                 THEN h[attribute_value.v].v[1]
                 ELSE attribute_value
    IN IF IsDict(value, h) \/ IsList(value, h)
       THEN LET obj == h[value.v]
                fresh == IF obj.k = "l"
                         THEN ListObj([i \in 1..Len(obj.v) |-> NoneV])
                         ELSE EmptyDict
                iterator == IF obj.k = "l"
                            THEN [i \in 1..Len(obj.v) |-> <<IdxStr(i - 1)>>]
                            ELSE obj.ks
            IN InnerLoop(attribute_key, value.v, iterator, 1,
                         [h |-> Append(h, fresh),
                          inner |-> ODSet(ODEmpty, attribute_key, Ref(Len(h) + 1))])
       ELSE [h |-> h, inner |-> ODSet(ODEmpty, attribute_key, value)]
\* the for loop over the children, from the i-th on
InnerLoop(attribute_key, a, iterator, i, acc) ==
    IF i > Len(iterator) THEN acc
    ELSE LET key == iterator[i]
             inner_key == attribute_key \o key
             r == get_inner_attributes(inner_key, GetItem(acc.h, a, key), acc.h)
             inner == ODUpdate(acc.inner, r.inner)
         IN InnerLoop(attribute_key, a, iterator, i + 1,
                      [h |-> SetItem(r.h, inner.v[attribute_key].v, key, inner.v[inner_key]),
                       inner |-> inner])

\* an ordered dict of cells as a mapping of values
ValuesOf(d, h) == [key \in DOMAIN d.v |-> Deref(d.v[key], h)]

-----------------------------------------------------------------------------
(* Block.update_inner_attribute: the in-place rewrite of the nested tree.      *)
(* Each operator gives [h |-> the heap afterwards, exc |-> an exception leaves *)
(* the call, failed |-> an exception was raised somewhere during the call].    *)

Raise(h) == [h |-> h, exc |-> TRUE, failed |-> TRUE]
Return(h, failed) == [h |-> h, exc |-> FALSE, failed |-> failed]

\* nested_attributes.get(attribute_key) on a dict: the cell, None when missing
DictGet(h, a, key) == IF key \in DOMAIN h[a].v THEN h[a].v[key] ELSE NoneV

\* line 146, nested_attributes[curr_key] = value_to_update: a dict takes any key,
\* a list an index in range (IndexError), anything else raises TypeError
AssignItem(nested_attributes, curr_key, value_to_update, h) ==
    CASE IsDict(nested_attributes, h) ->
            Return(DictSet(h, nested_attributes.v, <<curr_key>>, value_to_update), FALSE)
      [] IsList(nested_attributes, h) ->
            IF isnumeric(curr_key) /\ IntOf(curr_key) < Len(h[nested_attributes.v].v)
            THEN Return(ListSet(h, nested_attributes.v, IntOf(curr_key), value_to_update), FALSE)
            ELSE Raise(h)
      [] OTHER -> Raise(h)

\* nested_attributes[curr_key] evaluates (no KeyError, IndexError or TypeError).
\* Indexing a str gives a str, on which the recursive call can only raise: it
\* counts as raising here.
HasItem(nested_attributes, curr_key, h) ==
    CASE IsDict(nested_attributes, h) -> <<curr_key>> \in DOMAIN h[nested_attributes.v].v
      [] IsList(nested_attributes, h) ->
            isnumeric(curr_key) /\ IntOf(curr_key) < Len(h[nested_attributes.v].v)
      [] OTHER -> FALSE

RECURSIVE update_inner_attribute(_, _, _, _), BroadcastLoop(_, _, _, _, _, _)
update_inner_attribute(attribute_key, nested_attributes, value_to_update, h) ==
    LET split_key == attribute_key
        curr_key == split_key[1]
        \* lines 140-141
        h1 == IF /\ IsDict(nested_attributes, h)
                 /\ Truthy(DictGet(h, nested_attributes.v, attribute_key), h)
              THEN DictSet(h, nested_attributes.v, attribute_key, value_to_update)
              ELSE h
    IN IF IsList(nested_attributes, h1) /\ ~isnumeric(curr_key)
       THEN \* lines 142-144: each element is called with curr_key alone
            BroadcastLoop(curr_key, nested_attributes.v, 1, value_to_update, h1, FALSE)
       ELSE IF Len(split_key) = 1
       THEN AssignItem(nested_attributes, curr_key, value_to_update, h1)
       ELSE \* lines 148-156
            LET r == IF HasItem(nested_attributes, curr_key, h1)
                     THEN update_inner_attribute(Tail(split_key),
                                                 GetItem(h1, nested_attributes.v, <<curr_key>>),
                                                 value_to_update, h1)
                     ELSE Raise(h1)
            IN IF ~r.exc THEN r
               ELSE IF ~IsDict(nested_attributes, r.h)
               THEN Raise(r.h)     \* a list or a primitive has no .get: AttributeError
               ELSE IF DictGet(r.h, nested_attributes.v, attribute_key) # NoneV
               THEN Return(DictSet(r.h, nested_attributes.v, attribute_key, value_to_update), TRUE)
               ELSE Return(r.h, TRUE)
\* the for loop of line 143, from the i-th element on; an exception ends it
BroadcastLoop(curr_key, a, i, value_to_update, h, failed) ==
    IF i > Len(h[a].v) THEN Return(h, failed)
    ELSE LET r == update_inner_attribute(<<curr_key>>, h[a].v[i], value_to_update, h)
         IN IF r.exc THEN r
            ELSE BroadcastLoop(curr_key, a, i + 1, value_to_update, r.h, failed \/ r.failed)

-----------------------------------------------------------------------------
(* Block.update_attribute *)

\* checkov.terraform.checks.utils.utils.join_trimmed_strings: str_lst without its
\* last num_to_trim components, joined by char_to_join
join_trimmed_strings(str_lst, num_to_trim) == SubSeq(str_lst, 1, Len(str_lst) - num_to_trim)

\* lines 120-121 without the test of line 120: the origin is appended every time
AppendOriginAlways(cr, pb, change_origin_id) ==
    [cr EXCEPT ![pb] = Append(cr[pb], change_origin_id)]

\* lines 120-121 on the list at address pb
AppendOrigin(cr, pb, change_origin_id) ==
    IF Len(cr[pb]) = 0 \/ cr[pb][Len(cr[pb])] # change_origin_id
    THEN [cr EXCEPT ![pb] = Append(cr[pb], change_origin_id)]
    ELSE cr

\* lines 128-133, from the i-th round on: [h, changed]
RECURSIVE PrefixLoop(_, _, _, _, _, _, _)
PrefixLoop(attrs, attribute_key_parts, i, attribute_value, pb, h, changed) ==
    IF i >= Len(attribute_key_parts) THEN [h |-> h, changed |-> changed]
    ELSE LET key == join_trimmed_strings(attribute_key_parts, i)
         IN IF Len(key) > 1      \* key.find('.') > -1
            THEN LET h1 == DictSet(h, attrs, key, attribute_value)
                     wrapped == DictObj(<<<<attribute_key_parts[Len(attribute_key_parts) - i]>>>>,
                                        (<<attribute_key_parts[Len(attribute_key_parts) - i]>>
                                            :> attribute_value))
                 IN PrefixLoop(attrs, attribute_key_parts, i + 1, Ref(Len(h1) + 1), pb,
                               Append(h1, wrapped), ODSet(changed, key, pb))
            ELSE PrefixLoop(attrs, attribute_key_parts, i + 1, attribute_value, pb, h, changed)

\* [h, cr, changed, failed] after update_attribute on the Block whose attributes
\* dict is at attrs; previous_breadcrumbs is the list at address pb
update_attribute(attrs, changed, attribute_key, attribute_value, change_origin_id, pb, h, cr) ==
    LET cr1 == AppendOrigin(cr, pb, change_origin_id)
        r == update_inner_attribute(attribute_key, Ref(attrs), attribute_value, h)
        attribute_key_parts == attribute_key
    IN IF Len(attribute_key_parts) = 1
       THEN [h |-> r.h, cr |-> cr1, changed |-> ODSet(changed, attribute_key, pb),
             failed |-> r.failed]
       ELSE LET f == PrefixLoop(attrs, attribute_key_parts, 0, attribute_value, pb, r.h, changed)
            IN [h |-> f.h, cr |-> cr1, changed |-> f.changed, failed |-> r.failed]

-----------------------------------------------------------------------------
(* Block.__init__ *)

\* checkov.common.util.consts.RESOLVED_MODULE_ENTRY_NAME
RESOLVED_MODULE_ENTRY_NAME == <<"resolved_module">>

\* lines 51-55, from the i-th key of self.attributes on: [h, inner]
RECURSIVE ExtractLoop(_, _, _, _)
ExtractLoop(attrs, ks, i, acc) ==
    IF i > Len(ks) THEN acc
    ELSE LET attribute_key == ks[i]
             attribute_value == acc.h[attrs].v[attribute_key]
         IN IF /\ IsList(attribute_value, acc.h)
               /\ Len(acc.h[attribute_value.v].v) > 0
               /\ IsDict(acc.h[attribute_value.v].v[1], acc.h)
            THEN LET r == get_inner_attributes(attribute_key, attribute_value, acc.h)
                 IN ExtractLoop(attrs, ks, i + 1,
                                [h |-> r.h, inner |-> ODUpdate(acc.inner, r.inner)])
            ELSE ExtractLoop(attrs, ks, i + 1, acc)

_extract_inner_attributes(attrs, h) ==
    ExtractLoop(attrs, h[attrs].ks, 1, [h |-> h, inner |-> ODEmpty])

\* self.attributes.update(attributes_to_add), from the i-th key on
RECURSIVE DictUpdateFrom(_, _, _, _)
DictUpdateFrom(h, a, e, i) ==
    IF i > Len(e.ks) THEN h
    ELSE DictUpdateFrom(DictSet(h, a, e.ks[i], e.v[e.ks[i]]), a, e, i + 1)

\* lines 35-46 on the caller's dict at address attrs: the heap afterwards
init_attributes(attrs, h) ==
    LET h1 == IF Truthy(DictGet(h, attrs, RESOLVED_MODULE_ENTRY_NAME), h)
              THEN DictDel(h, attrs, RESOLVED_MODULE_ENTRY_NAME)
              ELSE h
        attributes_to_add == _extract_inner_attributes(attrs, h1)
    IN DictUpdateFrom(attributes_to_add.h, attrs, attributes_to_add.inner, 1)

-----------------------------------------------------------------------------
(* Block.get_attribute_dict, Block.get_hash *)

\* checkov.terraform.graph_builder.graph_components.attribute_names.CustomAttributes
CustomAttributes ==
    [BLOCK_NAME |-> <<"block_name_">>, BLOCK_TYPE |-> <<"block_type_">>,
     FILE_PATH |-> <<"file_path_">>, CONFIG |-> <<"config_">>, LABEL |-> <<"label_">>,
     ID |-> <<"id_">>, SOURCE |-> <<"source_">>, HASH |-> <<"hash">>]

\* Block.__str__: str(self.block_type) + ': ' + self.name
Label(bt, nm) == <<bt, ": ">> \o nm

\* the Blocks of this model are built with path, id and source left at '' and
\* encode at False, and nothing sets self.breadcrumbs
get_base_attributes(nm, bt, cfg) ==
    LET b1 == ODSet(ODEmpty, CustomAttributes.BLOCK_NAME, [k |-> "key", v |-> nm])
        b2 == ODSet(b1, CustomAttributes.BLOCK_TYPE, Str(bt))
        b3 == ODSet(b2, CustomAttributes.FILE_PATH, Str(""))
        b4 == ODSet(b3, CustomAttributes.CONFIG, cfg)
        b5 == ODSet(b4, CustomAttributes.LABEL, [k |-> "key", v |-> Label(bt, nm)])
        b6 == ODSet(b5, CustomAttributes.ID, Str(""))
    IN ODSet(b6, CustomAttributes.SOURCE, Str(""))

\* lines 95-106, from the i-th key of self.attributes on: [h, inner], inner
\* being base_attributes
RECURSIVE get_origin_attributes(_, _, _, _)
get_origin_attributes(attrs, ks, i, acc) ==
    IF i > Len(ks) THEN acc
    ELSE LET attribute_key == ks[i]
             stored == acc.h[attrs].v[attribute_key]
             attribute_value == IF IsList(stored, acc.h) /\ Len(acc.h[stored.v].v) = 1
                                THEN acc.h[stored.v].v[1]
                                ELSE stored
             r == IF IsDict(attribute_value, acc.h) \/ IsList(attribute_value, acc.h)
                  THEN LET g == get_inner_attributes(attribute_key, attribute_value, acc.h)
                       IN [h |-> g.h, inner |-> ODUpdate(acc.inner, g.inner)]
                  ELSE acc
             target == IF attribute_key = <<"self">> THEN <<"self_">> ELSE attribute_key
         IN get_origin_attributes(attrs, ks, i + 1,
                                  [h |-> r.h, inner |-> ODSet(r.inner, target, attribute_value)])

\* Python's order on the component names this model uses (ASCII order)
ComponentOrder == <<"0", "1", "2", "3", "acl", "bucket", "cipher", "default", "ingress",
                    "port", "resolved_module", "rule", "tags", "value">>
Rank(c) == CHOOSE i \in 1..Len(ComponentOrder) : ComponentOrder[i] = c
\* x < y on dotted strings: '.' sorts before every digit and letter, so the
\* strings compare as their component sequences do
RECURSIVE KeyLess(_, _)
KeyLess(x, y) ==
    IF Len(y) = 0 THEN FALSE
    ELSE IF Len(x) = 0 THEN TRUE
    ELSE IF x[1] # y[1] THEN Rank(x[1]) < Rank(y[1])
    ELSE KeyLess(Tail(x), Tail(y))

\* list.sort() on a list of distinct keys
RECURSIVE SortKeys(_)
SortKeys(S) ==
    IF S = {} THEN <<>>
    ELSE LET m == CHOOSE x \in S : \A y \in S \ {x} : KeyLess(x, y)
         IN <<m>> \o SortKeys(S \ {m})
sorted_keys(ks) == SortKeys({ks[i] : i \in 1..Len(ks)})

\* checkov.terraform.checks.utils.utils.calculate_hash, taken as the spec takes it:
\* a digest of the mapping's entries that is collision-free and independent of
\* the insertion order, which is what the mapping as a set of pairs is
calculate_hash(base_attributes, h) == [k |-> "h", v |-> ValuesOf(base_attributes, h)]

\* the list of changed keys, as lines 72-74 put it in base_attributes
changed_attributes_keys(changed) ==
    [k |-> "l", v |-> [i \in 1..Len(changed.ks) |-> [k |-> "key", v |-> sorted_keys(changed.ks)[i]]]]

\* lines 70-74: the sorted changed keys, put in base_attributes when there are any
add_changed_attributes(base_attributes, changed) ==
    IF Len(changed.ks) > 0
    THEN ODSet(base_attributes, <<"changed_attributes">>, changed_attributes_keys(changed))
    ELSE base_attributes

\* line 86: the hash of base_attributes as it is at that point
add_hash(base_attributes, h) ==
    ODSet(base_attributes, CustomAttributes.HASH, calculate_hash(base_attributes, h))

\* lines 88-90: the changed keys are taken out again when the entry is truthy
drop_changed_attributes(base_attributes, h) ==
    IF /\ ODHas(base_attributes, <<"changed_attributes">>)
       /\ Truthy(base_attributes.v[<<"changed_attributes">>], h)
    THEN ODDel(base_attributes, <<"changed_attributes">>)
    ELSE base_attributes

\* lines 70-92 on the result o of get_origin_attributes
finish_attribute_dict(o, changed) ==
    [h |-> o.h,
     inner |-> drop_changed_attributes(
                   add_hash(add_changed_attributes(o.inner, changed), o.h), o.h)]

\* lines 67-92: [h, inner], inner being the dict returned
get_attribute_dict(attrs, changed, nm, bt, cfg, h) ==
    finish_attribute_dict(
        get_origin_attributes(attrs, h[attrs].ks, 1,
                              [h |-> h, inner |-> get_base_attributes(nm, bt, cfg)]),
        changed)

\* lines 108-110
get_hash(attrs, changed, nm, bt, cfg, h) ==
    get_attribute_dict(attrs, changed, nm, bt, cfg, h).inner.v[CustomAttributes.HASH]

-----------------------------------------------------------------------------
(* Block.find_attribute *)

\* checkov.terraform.graph_builder.graph_components.block_types.BlockType
BlockType == [resource |-> "resource", variable |-> "variable", output |-> "output",
              module |-> "module"]

Found(key) == [k |-> "key", v |-> key]

\* attribute is a list of keys; the result is Found(key) or None
find_attribute(attrs, nm, bt, attribute, h) ==
    IF Len(attribute) = 0 THEN NoneV
    ELSE IF Truthy(DictGet(h, attrs, attribute[1]), h) THEN Found(attribute[1])
    ELSE IF bt = BlockType.variable
    THEN IF Truthy(DictGet(h, attrs, <<"default">>), h) THEN Found(<<"default">>) ELSE NoneV
    ELSE IF bt = BlockType.output
    THEN IF Truthy(DictGet(h, attrs, <<"value">>), h) THEN Found(<<"value">>) ELSE NoneV
    ELSE IF /\ bt = BlockType.resource
            /\ Len(attribute) > 1
            /\ nm = attribute[1]
            /\ Truthy(DictGet(h, attrs, attribute[2]), h)
    THEN Found(attribute[2])
    ELSE NoneV

-----------------------------------------------------------------------------
(* WithinAttributeSolver._get_operation *)

\* vertex.get(attribute) on the exported mapping
MappingGet(vertex, attribute) == IF attribute \in DOMAIN vertex THEN vertex[attribute] ELSE NoneV

\* vertex.get(attribute) in self.value, self.value being a list of values
_get_operation(vertex, attribute, value) ==
    \E i \in 1..Len(value) : value[i] = MappingGet(vertex, attribute)

-----------------------------------------------------------------------------
(* The calls *)

Vertices == {"v", "w"}

NoCall == [op |-> "none", self |-> "", args |-> <<>>, before |-> <<>>, res |-> <<>>]

\* the attributes dict of a Block, and its changed keys, as values
AttributesOf(self) == Deref(Ref(attributes[self]), heap).v
ChangedKeys(self) == DOMAIN changed_attributes[self].v

\* Block(name, config, path, block_type, attributes): the caller has parsed the
\* document doc and hands in the dict it built, keeping its own reference to it
Construct(self, nm, bt, doc) ==
    /\ ~built[self]
    /\ LET a == Alloc(doc, heap)
       IN /\ heap' = init_attributes(a.cell.v, a.h)
          /\ attributes' = [attributes EXCEPT ![self] = a.cell.v]
          /\ source' = [source EXCEPT ![self] = a.cell.v]
    /\ built' = [built EXCEPT ![self] = TRUE]
    /\ name' = [name EXCEPT ![self] = nm]
    /\ block_type' = [block_type EXCEPT ![self] = bt]
    /\ config' = [config EXCEPT ![self] = ValueOf(doc)]
    /\ changed_attributes' = [changed_attributes EXCEPT ![self] = ODEmpty]
    /\ last' = [op |-> "init", self |-> self, args |-> [attributes |-> ValueOf(doc)],
                before |-> <<>>, res |-> <<>>]
    /\ UNCHANGED <<crumbs, updates, failures>>

\* self.update_attribute(attribute_key, attribute_value, change_origin_id,
\* previous_breadcrumbs): previous_breadcrumbs is the list at address pb, a new
\* empty list when pb is the first free address
UpdateAttribute(self, attribute_key, attribute_value, change_origin_id, pb) ==
    /\ built[self]
    /\ pb \in 1..(Len(crumbs) + 1)
    /\ LET cr == IF pb > Len(crumbs) THEN Append(crumbs, <<>>) ELSE crumbs
           r == update_attribute(attributes[self], changed_attributes[self], attribute_key,
                                 attribute_value, change_origin_id, pb, heap, cr)
       IN /\ heap' = r.h
          /\ crumbs' = r.cr
          /\ changed_attributes' = [changed_attributes EXCEPT ![self] = r.changed]
          /\ last' = [op |-> "update", self |-> self,
                      args |-> [attribute_key |-> attribute_key,
                                attribute_value |-> attribute_value,
                                change_origin_id |-> change_origin_id,
                                pb |-> pb, previous_breadcrumbs |-> cr[pb]],
                      before |-> [attributes |-> AttributesOf(self),
                                  changed |-> ChangedKeys(self)],
                      res |-> [failed |-> r.failed]]
          /\ failures' = [failures EXCEPT ![self] = IF r.failed THEN @ + 1 ELSE @]
    /\ updates' = [updates EXCEPT ![self] = @ + 1]
    /\ UNCHANGED <<built, name, block_type, attributes, config, source>>

\* the mapping self.get_attribute_dict() returns, as a value
Exported(r) == ValuesOf(r.inner, r.h)
Export(self) ==
    Exported(get_attribute_dict(attributes[self], changed_attributes[self], name[self],
                                block_type[self], config[self], heap))

GetAttributeDict(self) ==
    /\ built[self]
    /\ last' = [op |-> "export", self |-> self, args |-> <<>>,
                before |-> [attributes |-> AttributesOf(self), changed |-> ChangedKeys(self)],
                res |-> Export(self)]
    /\ UNCHANGED <<heap, crumbs, built, name, block_type, attributes, changed_attributes,
                   config, source, updates, failures>>

Hash(self) == get_hash(attributes[self], changed_attributes[self], name[self],
                       block_type[self], config[self], heap)

GetHash(self) ==
    /\ built[self]
    /\ last' = [op |-> "hash", self |-> self, args |-> <<>>,
                before |-> [attributes |-> AttributesOf(self), changed |-> ChangedKeys(self)],
                res |-> Hash(self)]
    /\ UNCHANGED <<heap, crumbs, built, name, block_type, attributes, changed_attributes,
                   config, source, updates, failures>>

FindAttribute(self, attribute) ==
    /\ built[self]
    /\ last' = [op |-> "find", self |-> self, args |-> [attribute |-> attribute],
                before |-> [attributes |-> AttributesOf(self), changed |-> ChangedKeys(self)],
                res |-> find_attribute(attributes[self], name[self], block_type[self],
                                       attribute, heap)]
    /\ UNCHANGED <<heap, crumbs, built, name, block_type, attributes, changed_attributes,
                   config, source, updates, failures>>

\* WithinAttributeSolver(resource_types, attribute, value)._get_operation(vertex,
\* attribute) on the mapping the Block exports
WithinCall(self, vertex, attribute, value) ==
    [op |-> "within", self |-> self,
     args |-> [vertex |-> vertex, attribute |-> attribute, value |-> value],
     before |-> [attributes |-> AttributesOf(self), changed |-> ChangedKeys(self)],
     res |-> _get_operation(vertex, attribute, value)]

GetOperation(self, attribute, value) ==
    /\ built[self]
    /\ last' = WithinCall(self, Export(self), attribute, value)
    /\ UNCHANGED <<heap, crumbs, built, name, block_type, attributes, changed_attributes,
                   config, source, updates, failures>>

\* get_inner_attributes(attribute_key, attribute_value) on the value of doc
FlatOf(attribute_key, doc) ==
    LET a == Alloc(doc, <<>>)
        r == get_inner_attributes(attribute_key, a.cell, a.h)
    IN ValuesOf(r.inner, r.h)

GetInnerAttributes(attribute_key, doc) ==
    /\ last' = [op |-> "flatten", self |-> "",
                args |-> [attribute_key |-> attribute_key, attribute_value |-> doc],
                before |-> <<>>, res |-> FlatOf(attribute_key, doc)]
    /\ UNCHANGED <<heap, crumbs, built, name, block_type, attributes, changed_attributes,
                   config, source, updates, failures>>

-----------------------------------------------------------------------------
(* The graph builder's use of one Block: built from a parsed document, then *)
(* rewritten by update_attribute and exported                                *)

MaxUpdates == 2
MaxPathLen == 3

\* {ingress: [{port: 80}, {port: 443}]}
DocIngress ==
    D(<< <<"ingress", L(<< D(<< <<"port", Int_(80)>> >>), D(<< <<"port", Int_(443)>> >>) >>)>> >>)
\* {ingress: [{rule: {port: 80}}, {rule: {port: 443}}]}
DocRules ==
    D(<< <<"ingress", L(<< D(<< <<"rule", D(<< <<"port", Int_(80)>> >>)>> >>),
                           D(<< <<"rule", D(<< <<"port", Int_(443)>> >>)>> >>) >>)>> >>)
\* {rule: {ingress: {port: 80, rule: 1}}, port: 0}
DocNested ==
    D(<< <<"rule", D(<< <<"ingress", D(<< <<"port", Int_(80)>>, <<"rule", Int_(1)>> >>)>> >>)>>,
         <<"port", Int_(0)>> >>)
\* {ingress: [{port: 80}], resolved_module: [1]}
DocModule ==
    D(<< <<"ingress", L(<< D(<< <<"port", Int_(80)>> >>) >>)>>,
         <<"resolved_module", L(<< Int_(1) >>)>> >>)
\* {port: [80, 443], rule: {port: 1}}
DocPlain ==
    D(<< <<"port", L(<< Int_(80), Int_(443) >>)>>, <<"rule", D(<< <<"port", Int_(1)>> >>)>> >>)

Documents == {DocIngress, DocRules, DocNested, DocModule, DocPlain}

Components == {"ingress", "port", "rule", "0"}
PathsOfLen(n) == [1..n -> Components]
Paths == UNION {PathsOfLen(n) : n \in 1..MaxPathLen}
Values == {Int_(8080)}
ResourceName == <<"aws_security_group", "web">>

Init == /\ heap = <<>>
        /\ crumbs = <<>>
        /\ built = [self \in Vertices |-> FALSE]
        /\ name = [self \in Vertices |-> <<>>]
        /\ block_type = [self \in Vertices |-> ""]
        /\ attributes = [self \in Vertices |-> 0]
        /\ changed_attributes = [self \in Vertices |-> ODEmpty]
        /\ config = [self \in Vertices |-> NoneV]
        /\ source = [self \in Vertices |-> 0]
        /\ updates = [self \in Vertices |-> 0]
        /\ failures = [self \in Vertices |-> 0]
        /\ last = NoCall

Build == \E doc \in Documents : Construct("v", ResourceName, BlockType.resource, doc)

Rewrite ==
    /\ updates["v"] < MaxUpdates
    /\ \E p \in Paths, x \in Values : UpdateAttribute("v", p, x, "origin", Len(crumbs) + 1)

Read == GetAttributeDict("v")

Next == Build \/ Rewrite \/ Read

Spec == Init /\ [][Next]_vars
-----------------------------------------------------------------------------
(* The nested tree and the flattened projection of a Block *)

\* descent from the value val along path: a component keys into a dict, a numeric
\* component indexes a list
RECURSIVE Lookup(_, _)
Lookup(val, path) ==
    IF Len(path) = 0 THEN [ok |-> TRUE, val |-> val]
    ELSE IF val.k = "d" /\ <<path[1]>> \in DOMAIN val.v
    THEN Lookup(val.v[<<path[1]>>], Tail(path))
    ELSE IF val.k = "l" /\ isnumeric(path[1]) /\ IntOf(path[1]) < Len(val.v)
    THEN Lookup(val.v[IntOf(path[1]) + 1], Tail(path))
    ELSE [ok |-> FALSE, val |-> NoneV]

\* the nested tree of an attributes mapping m (its undotted keys) at path
Resolve(m, path) == Lookup([k |-> "d", v |-> m], path)
StrictPrefixes(path) == {SubSeq(path, 1, n) : n \in 1..(Len(path) - 1)}

\* C1 (stated for the paths that plain descent resolves in the tree before the
\* call, so that no resolution failure and no broadcast is involved): after
\* update(p, v, origin, []) the nested tree holds v at p, the flattened projection
\* holds v at key p, and at every strict prefix q of p the flattened projection
\* holds the nested subtree at q as it is after the update.
C1_UpdateSynchronizesBothViews ==
    (last.op = "update" /\ Resolve(last.before.attributes, last.args.attribute_key).ok) =>
        LET p == last.args.attribute_key
            v == last.args.attribute_value
            m == AttributesOf(last.self)
        IN /\ Resolve(m, p).ok /\ Resolve(m, p).val = v
           /\ p \in DOMAIN m /\ m[p] = v
           /\ \A q \in StrictPrefixes(p) :
                 /\ Resolve(m, q).ok
                 /\ q \in DOMAIN m
                 /\ m[q] = Resolve(m, q).val

\* the undotted keys of the attributes dict alone, in a copy of the heap
RECURSIVE DropDotted(_, _, _, _)
DropDotted(h, a, ks, i) ==
    IF i > Len(ks) THEN h
    ELSE DropDotted(IF Len(ks[i]) > 1 THEN DictDel(h, a, ks[i]) ELSE h, a, ks, i + 1)

BaseKeys == {CustomAttributes.BLOCK_NAME, CustomAttributes.BLOCK_TYPE,
             CustomAttributes.FILE_PATH, CustomAttributes.CONFIG, CustomAttributes.LABEL,
             CustomAttributes.ID, CustomAttributes.SOURCE, CustomAttributes.HASH}
Restrict(f, S) == [x \in S |-> f[x]]

\* the flattened projection export returns: its entries other than the base fields
Projection(self) == Restrict(Export(self), DOMAIN Export(self) \ BaseKeys)

\* the flattening of the nested tree alone: what export returns for it
FlattenedNested(self) ==
    LET h == DropDotted(heap, attributes[self], heap[attributes[self]].ks, 1)
        r == get_attribute_dict(attributes[self], changed_attributes[self], name[self],
                                block_type[self], config[self], h)
    IN Restrict(ValuesOf(r.inner, r.h), DOMAIN r.inner.v \ BaseKeys)

\* C2 (stated for the runs in which no update met a resolution failure): the
\* flattened projection, as stored and as export returns it, agrees with the
\* nested tree: export returns exactly the flattening of the nested tree, and
\* every stored dotted key holds the value the nested tree has at that path.
C2_ViewsConsistent ==
    \A self \in Vertices :
        (built[self] /\ failures[self] = 0) =>
            /\ Projection(self) = FlattenedNested(self)
            /\ \A key \in DOMAIN AttributesOf(self) :
                  Len(key) > 1 =>
                      /\ key \in DOMAIN FlattenedNested(self)
                      /\ AttributesOf(self)[key] = FlattenedNested(self)[key]

\* C3: an update that met a resolution failure either assigned v to the key p
\* alone, p having been a key already, or left the attributes as they were.
C3_FailureLeavesStateOrFallsBack ==
    (last.op = "update" /\ last.res.failed) =>
        LET p == last.args.attribute_key
            old == last.before.attributes
            m == AttributesOf(last.self)
        IN \/ m = old
           \/ /\ p \in DOMAIN old
              /\ m = [old EXCEPT ![p] = last.args.attribute_value]

\* the place where the descent along path meets a list with a non-numeric next
\* component: the number of components before it, 0 when there is none
BroadcastAt(m, path) ==
    LET hits == {n \in 1..(Len(path) - 1) :
                    /\ Resolve(m, SubSeq(path, 1, n)).ok
                    /\ Resolve(m, SubSeq(path, 1, n)).val.k = "l"
                    /\ ~isnumeric(path[n + 1])}
    IN IF hits = {} THEN 0 ELSE CHOOSE n \in hits : \A x \in hits : n <= x

\* C4 (stated for the sequences every element of which holds the remaining path
\* before the call): when the descent meets a sequence and the next component is
\* not numeric, every element of the sequence afterwards holds v at the whole
\* remaining path, and p is recorded in changed_attributes.
C4_BroadcastRewritesEveryElement ==
    (last.op = "update") =>
        LET p == last.args.attribute_key
            n == BroadcastAt(last.before.attributes, p)
            q == SubSeq(p, 1, n)
            rest == SubSeq(p, n + 1, Len(p))
            was == Resolve(last.before.attributes, q).val.v
            now == Resolve(AttributesOf(last.self), q)
        IN (n > 0 /\ \A i \in 1..Len(was) : Lookup(was[i], rest).ok) =>
              /\ now.ok /\ now.val.k = "l" /\ Len(now.val.v) = Len(was)
              /\ \A i \in 1..Len(now.val.v) :
                     /\ Lookup(now.val.v[i], rest).ok
                     /\ Lookup(now.val.v[i], rest).val = last.args.attribute_value
              /\ p \in ChangedKeys(last.self)

\* C10: constructing a Block leaves the attribute tree the caller supplied as it
\* was, and no update on the Block changes it.
C10_CallerTreeUntouched ==
    \A self \in Vertices :
        built[self] => Deref(Ref(source[self]), heap) = config[self]
-----------------------------------------------------------------------------
(* Breadcrumbs: one Block rewritten by calls that hand a breadcrumb list on *)

MaxCrumbUpdates == 3
MaxChains == 2
Origins == {"module.vpc", "var.port"}
CrumbPaths == {<<"port">>, <<"rule", "port">>}

CrumbBuild == Construct("v", ResourceName, BlockType.resource, DocPlain)

CrumbRewrite ==
    /\ updates["v"] < MaxCrumbUpdates
    /\ \E p \in CrumbPaths, o \in Origins, pb \in 1..MaxChains :
          UpdateAttribute("v", p, Int_(8080), o, pb)

CrumbNext == CrumbBuild \/ CrumbRewrite

SpecCrumbs == Init /\ [][CrumbNext]_vars

NoRepeat(chain) == \A i \in 1..(Len(chain) - 1) : chain[i] # chain[i + 1]

\* C5: an update appends originId to the breadcrumb list it is given exactly when
\* the list is empty or its last element differs from originId, and leaves it
\* alone otherwise; no list that started empty ever holds two consecutive equal
\* entries; and the list recorded in changed_attributes for the updated path is
\* the list the call was given.
C5_BreadcrumbsNeverRepeat ==
    /\ \A a \in 1..Len(crumbs) : NoRepeat(crumbs[a])
    /\ last.op = "update" =>
          LET prev == last.args.previous_breadcrumbs
              o == last.args.change_origin_id
              p == last.args.attribute_key
          IN /\ crumbs[last.args.pb] =
                    IF Len(prev) = 0 \/ prev[Len(prev)] # o THEN Append(prev, o) ELSE prev
             /\ p \in ChangedKeys(last.self)
             /\ changed_attributes[last.self].v[p] = last.args.pb

\* an update handed a list that already ended with its origin, after another
\* origin had been recorded in it
C5_Witness ==
    /\ last.op = "update"
    /\ Len(last.args.previous_breadcrumbs) >= 2
    /\ last.args.previous_breadcrumbs[Len(last.args.previous_breadcrumbs)]
          = last.args.change_origin_id
    /\ crumbs[last.args.pb] = last.args.previous_breadcrumbs

-----------------------------------------------------------------------------
(* Lookup: Blocks of every kind, asked for an attribute *)

Absent == [k |-> "absent", v |-> 0]
Entry(key, x) == IF x = Absent THEN <<>> ELSE << <<key, x>> >>
BucketName == <<"aws_s3_bucket", "template_bucket">>

FindDocuments ==
    {D(Entry("acl", x) \o Entry("default", y) \o Entry("value", z)) :
        x \in {Absent, Int_(0), Str("private")},
        y \in {Absent, Int_(0), Str("eu")},
        z \in {Absent, Str(""), Str("arn")}}
BlockTypes == {BlockType.resource, BlockType.variable, BlockType.output, BlockType.module}
CandidateKeys == {<<"acl">>, <<"bucket">>, BucketName}
Candidates == {<<>>} \cup {<<x>> : x \in CandidateKeys}
                 \cup {<<x, y>> : x \in CandidateKeys, y \in {<<"acl">>, <<"bucket">>}}

FindBuild == \E doc \in FindDocuments, bt \in BlockTypes : Construct("v", BucketName, bt, doc)
FindLookup == \E attribute \in Candidates : FindAttribute("v", attribute)
FindNext == FindBuild \/ FindLookup

SpecFind == Init /\ [][FindNext]_vars

\* what C6 says find_attribute returns on the attributes mapping m
Claimed(m, nm, bt, attribute) ==
    IF Len(attribute) = 0 THEN NoneV
    ELSE IF attribute[1] \in DOMAIN m THEN Found(attribute[1])
    ELSE IF bt = BlockType.variable /\ <<"default">> \in DOMAIN m THEN Found(<<"default">>)
    ELSE IF bt = BlockType.output /\ <<"value">> \in DOMAIN m THEN Found(<<"value">>)
    ELSE IF /\ bt = BlockType.resource
            /\ Len(attribute) >= 2
            /\ attribute[1] = nm
            /\ attribute[2] \in DOMAIN m
    THEN Found(attribute[2])
    ELSE NoneV

\* C6: find_attribute returns None for no candidates; the first candidate when it
\* is a key of the attributes, whatever value it holds; otherwise "default" for a
\* variable that has the key default, "value" for an output that has the key
\* value, the second candidate for a resource named by the first that has the
\* second as a key; None in every other case; and it leaves the Block as it was.
C6_FindAttributeByKey ==
    last.op = "find" =>
        /\ last.res = Claimed(AttributesOf(last.self), name[last.self], block_type[last.self],
                              last.args.attribute)
        /\ AttributesOf(last.self) = last.before.attributes

-----------------------------------------------------------------------------
(* Policy checks: the within solver on the mapping a Block exports *)

StrongCiphers == <<Str("TLS_AES_128_GCM_SHA256"), Str("TLS_AES_256_GCM_SHA384")>>
WithinDocuments ==
    {D(Entry("cipher", x) \o Entry("port", y)) :
        x \in {Absent, NoneV, Str("TLS_AES_128_GCM_SHA256"), Str("TLS_RC4_MD5")},
        y \in {Absent, NoneV, Int_(443)}}
\* the comparison lists a check document can configure
ComparisonValues ==
    {StrongCiphers, <<>>, <<Str("TLS_RC4_MD5")>>, <<Int_(443), Int_(80)>>,
     <<NoneV>>, <<NoneV, Str("TLS_AES_128_GCM_SHA256")>>}
WithinAttributes == {<<"cipher">>, <<"port">>}

WithinBuild ==
    \E doc \in WithinDocuments : Construct("v", ResourceName, BlockType.resource, doc)
WithinCheck ==
    \E attribute \in WithinAttributes, value \in ComparisonValues :
        GetOperation("v", attribute, value)
WithinNext == WithinBuild \/ WithinCheck

SpecWithin == Init /\ [][WithinNext]_vars

\* C7: within is true exactly when the exported mapping contains the attribute
\* and its value is an element of the comparison set; it is false whenever the
\* mapping does not contain the attribute; and it leaves the mapping as it was.
C7_WithinIsMembership ==
    last.op = "within" =>
        /\ last.res = (/\ last.args.attribute \in DOMAIN last.args.vertex
                       /\ \E i \in 1..Len(last.args.value) :
                             last.args.value[i] = last.args.vertex[last.args.attribute])
        /\ Export(last.self) = last.args.vertex
-----------------------------------------------------------------------------
(* Fingerprints: two Blocks built from documents, rewritten, and hashed *)

MaxHashUpdates == 2

\* {port: 80, rule: 1} and the same entries inserted the other way round
DocPortRule == D(<< <<"port", Int_(80)>>, <<"rule", Int_(1)>> >>)
DocRulePort == D(<< <<"rule", Int_(1)>>, <<"port", Int_(80)>> >>)
\* {changed_attributes: ['port', 'rule'], port: 80, rule: 1}: a resource that
\* declares an attribute named changed_attributes
DocTagged ==
    D(<< <<"changed_attributes", L(<< Name(<<"port">>), Name(<<"rule">>) >>)>>,
         <<"port", Int_(80)>>, <<"rule", Int_(1)>> >>)
HashDocuments == {DocPortRule, DocRulePort, DocTagged}
HashPaths == {<<"port">>, <<"rule">>}
HashValues == {Int_(80), Int_(1)}

HashBuild ==
    \E self \in Vertices, doc \in HashDocuments :
        Construct(self, ResourceName, BlockType.resource, doc)
HashRewrite ==
    \E self \in Vertices, p \in HashPaths, x \in HashValues :
        /\ updates[self] < MaxHashUpdates
        /\ UpdateAttribute(self, p, x, "origin", 1)
HashRead == \E self \in Vertices : GetHash(self)
HashNext == HashBuild \/ HashRewrite \/ HashRead

SpecHash == Init /\ [][HashNext]_vars

\* the exported mapping without the fingerprint itself
Fingerprinted(self) ==
    [key \in (DOMAIN Export(self)) \ {CustomAttributes.HASH} |-> Export(self)[key]]

\* C8: two Blocks whose exported mappings are equal as key/value sets and whose
\* changed-key sets are equal have equal hashes; two Blocks that differ in an
\* exported value or in their changed-key sets have different hashes; and the
\* mapping export returns for a rewritten Block has no changed_attributes entry.
C8_FingerprintStableAndSensitive ==
    /\ (built["v"] /\ built["w"]) =>
          /\ (Fingerprinted("v") = Fingerprinted("w") /\ ChangedKeys("v") = ChangedKeys("w"))
                => Hash("v") = Hash("w")
          /\ (Fingerprinted("v") # Fingerprinted("w") \/ ChangedKeys("v") # ChangedKeys("w"))
                => Hash("v") # Hash("w")
    /\ \A self \in Vertices :
          (built[self] /\ ChangedKeys(self) # {})
              => <<"changed_attributes">> \notin DOMAIN Export(self)

-----------------------------------------------------------------------------
(* Flattening: get_inner_attributes on nested values of depth up to MaxDepth *)

MaxDepth == 4

\* the values of depth at most n: 1, [x], [x, 2] and {port: x}
RECURSIVE NestedValues(_)
NestedValues(n) ==
    IF n = 0 THEN {Int_(1)}
    ELSE {Int_(1)}
            \cup {L(<<x>>) : x \in NestedValues(n - 1)}
            \cup {L(<<x, Int_(2)>>) : x \in NestedValues(n - 1)}
            \cup {D(<< <<"port", x>> >>) : x \in NestedValues(n - 1)}
RootKey == <<"rule">>

Flatten == \E doc \in NestedValues(MaxDepth) : GetInnerAttributes(RootKey, doc)
FlatNext == Flatten

SpecFlat == Init /\ [][FlatNext]_vars

\* val with every singleton list replaced by its sole element, at every level
RECURSIVE Unwrapped(_)
Unwrapped(val) ==
    CASE val.k = "l" /\ Len(val.v) = 1 -> Unwrapped(val.v[1])
      [] val.k = "l" -> [k |-> "l", v |-> [i \in 1..Len(val.v) |-> Unwrapped(val.v[i])]]
      [] val.k = "d" -> [k |-> "d", v |-> [key \in DOMAIN val.v |-> Unwrapped(val.v[key])]]
      [] OTHER -> val

\* the paths of val: the empty path and every descendant <key or index> path
RECURSIVE PathsIn(_)
PathsIn(val) ==
    {<<>>} \cup
    CASE val.k = "l" ->
            UNION {{<<IdxStr(i - 1)>> \o p : p \in PathsIn(val.v[i])} : i \in 1..Len(val.v)}
      [] val.k = "d" ->
            UNION {{key \o p : p \in PathsIn(val.v[key])} : key \in DOMAIN val.v}
      [] OTHER -> {}

\* a literal that denotes the value val
RECURSIVE LiteralOf(_), PairsOf(_, _)
LiteralOf(val) ==
    CASE val.k = "l" -> L([i \in 1..Len(val.v) |-> LiteralOf(val.v[i])])
      [] val.k = "d" -> D(PairsOf(val.v, DOMAIN val.v))
      [] OTHER -> val
PairsOf(f, S) ==
    IF S = {} THEN <<>>
    ELSE LET key == CHOOSE x \in S : TRUE
         IN << <<key[1], LiteralOf(f[key])>> >> \o PairsOf(f, S \ {key})

\* C9: the flat mapping for root key k holds at k the input with every singleton
\* list unwrapped at every level, holds exactly one entry per descendant path of
\* that value, each equal to the value at that path in the entry at k, and
\* flattening the entry at k again gives the same flat mapping.
C9_FlattenRoundTrip ==
    last.op = "flatten" =>
        LET k == last.args.attribute_key
            flat == last.res
            expected == Unwrapped(ValueOf(last.args.attribute_value))
        IN /\ flat[k] = expected
           /\ DOMAIN flat = {k \o p : p \in PathsIn(flat[k])}
           /\ \A p \in PathsIn(flat[k]) : flat[k \o p] = Lookup(flat[k], p).val
           /\ FlatOf(k, LiteralOf(flat[k])) = flat
====
